---- MODULE Spec2Model ----
(***************************************************************************)
(* A model of dbxs: the query-binding engine of dbxs/_access.py and the     *)
(* schema builder of dbxs/schema.py.                                       *)
(*                                                                         *)
(* Three specifications share the state:                                   *)
(*   Spec      the life of calls to bound proxy methods: proxyMethod,      *)
(*             body, the cardinality loaders and MaybeAIterable, one       *)
(*             action per piece of code between two suspension points;     *)
(*   SpecDecl  the definition of a protocol class: query/statement         *)
(*             decorators (QueryMetadata.setOn) and accessor;              *)
(*   SpecSchema  one thread's use of a SchemaBuilder: table, the           *)
(*             decorator it returns, column and constraint.                *)
(***************************************************************************)
EXTENDS Integers, Sequences, FiniteSets, TLC

VARIABLES
    conn,       \* the AsyncConnection of the proxy: [paramstyle]
    calls,      \* call id -> the state of one proxyMethod call
    cursors,    \* the cursors conn.cursor() has handed out, by number
    classBody,  \* the namespace of the protocol class being defined
    defState,   \* "defining" | "aborted" | "built" | "rejected"
    raised,     \* the definition-time failure, if any: [exc, names, params]
    proxyType,  \* the namespace of the type accessor built
    rejected,   \* the template and signature ParamMismatch was raised for
    schema,     \* SchemaBuilder.schema, as the sequence of its fragments
    current,    \* _TableStack.current of the thread: a working table, 0: None
    workingTables,  \* the _WorkingTable objects created, by number
    decorators, \* the buildSchema closures table() returned, by number
    thrown,     \* the exception the last SchemaBuilder operation raised
    trace       \* the SchemaBuilder operations of the thread, in order

vars ==
    <<conn, calls, cursors, classBody, defState, raised, proxyType, rejected,
      schema, current, workingTables, decorators, thrown, trace>>
callVars == <<conn, calls, cursors>>
declVars == <<classBody, defState, raised, proxyType, rejected>>
schemaVars == <<schema, current, workingTables, decorators, thrown, trace>>

(***************************************************************************)
(* Bounds of the model.                                                    *)
(***************************************************************************)
MaxCalls == 2      \* calls made on the proxy instance
MaxRows == 2       \* rows a statement's execution yields
MaxConsume == 2    \* times one result object is consumed
MaxMembers == 2    \* members a protocol class body declares
MaxTemplate == 2   \* tokens of a SQL template
MaxOps == 7        \* SchemaBuilder operations of the thread
MaxTables == 2     \* tables opened with SchemaBuilder.table

Range(s) == {s[i] : i \in 1..Len(s)}

(***************************************************************************)
(* SQL templates.  str.format_map walks the template left to right and     *)
(* asks the map for every {name} field; the text between fields is copied. *)
(* A template is the sequence of its pieces.                               *)
(***************************************************************************)
Lit(t) == [kind |-> "lit", text |-> t]
Ph(n) == [kind |-> "ph", text |-> n]

\* A map whose names are not empty when the pyformat rendering starts.
IndexCountingParamstyleMapUsed(placeholder) ==
    [placeholder |-> placeholder,
     names |-> IF placeholder = "%s" THEN <<"a">> ELSE <<>>]

\* IndexCountingParamstyleMap(placeholder): names starts empty.
IndexCountingParamstyleMap(placeholder) ==
    [placeholder |-> placeholder, names |-> <<>>]

\* A __getitem__ that records a name at its first occurrence only.
getitemOnce(map, name) ==
    [value |-> map.placeholder,
     map |-> [map EXCEPT !.names =
                 IF name \in Range(@) THEN @ ELSE Append(@, name)]]

\* IndexCountingParamstyleMap.__getitem__: records the name, returns the token.
getitem(map, name) ==
    [value |-> map.placeholder,
     map |-> [map EXCEPT !.names = Append(@, name)]]

\* styles: paramstyle -> the placeholder of its map factory.
styles == [qmark |-> "?", pyformat |-> "%s"]

\* str.format_map(mapInstance): the styled SQL and the map after the walk.
RECURSIVE format_map(_, _, _)
format_map(sql, out, map) ==
    IF sql = <<>> THEN [sql |-> out, map |-> map]
    ELSE IF Head(sql).kind = "ph"
         THEN LET got == getitem(map, Head(sql).text)
              IN format_map(Tail(sql), Append(out, got.value), got.map)
         ELSE format_map(Tail(sql), Append(out, Head(sql).text), map)

\* IndexCountingParamstyleMap.queryArguments: the bound values by recorded name.
queryArguments(map, bound) == [i \in 1..Len(map.names) |-> bound[map.names[i]]]

\* A slice that keeps the first parameter.
allParameters(params) == params

\* list(sig.parameters)[1:]: a slice, empty for a method without parameters.
selfExcluded(params) == SubSeq(params, 2, Len(params))

\* A comparison that accepts a template using only some of the parameters.
ParamsNotCovering(names, params) == ~(Range(names) \subseteq Range(params))

\* The comparison setOn makes between the sample rendering and the signature.
ParamsDiffer(names, params) == Range(names) # Range(params)

NoMetadata == [error |-> "no metadata"]

\* QueryMetadata.setOn: the renderings of every style, the check against the
\* qmark rendering, and the metadata proxyMethod closes over.
setOn(sql, load, params) ==
    LET precomputedSQL ==
            [style \in DOMAIN styles |->
                format_map(sql, <<>>, IndexCountingParamstyleMap(styles[style]))]
        sampleInstance == precomputedSQL["qmark"].map
    IN  IF ParamsDiffer(sampleInstance.names, selfExcluded(params))
        THEN [error |-> "ParamMismatch"]
        ELSE [error |-> "none", sql |-> sql, load |-> load, sig |-> params,
              precomputedSQL |-> precomputedSQL]

(***************************************************************************)
(* Outcomes of a consumption, as the caller sees them.                     *)
(***************************************************************************)
Nothing == [kind |-> "nothing", val |-> 0, exc |-> "", cause |-> ""]
Returned(v) == [kind |-> "value", val |-> v, exc |-> "", cause |-> ""]
ReturnedNone == [kind |-> "None", val |-> 0, exc |-> "", cause |-> ""]
ReturnedAgen == [kind |-> "agen", val |-> 0, exc |-> "", cause |-> ""]
Exhausted == [kind |-> "stop", val |-> 0, exc |-> "", cause |-> ""]
Closed == [kind |-> "aclose", val |-> 0, exc |-> "", cause |-> ""]
Raised(e, cause) == [kind |-> "raise", val |-> 0, exc |-> e, cause |-> cause]

(***************************************************************************)
(* The driver's rows and a row-loader.  A loader is the caller's; the one  *)
(* here takes one column and builds a value from it, so that a row of two  *)
(* columns is a row whose shape it cannot accept (load(db, *row) raises    *)
(* TypeError).                                                             *)
(***************************************************************************)
Rows == {<<1>>, <<2>>, <<1, 2>>}

load(row) ==
    IF Len(row) = 1 THEN [ok |-> TRUE, val |-> 10 * row[1]]
    ELSE [ok |-> FALSE, val |-> 0]

\* A reraise that lets the loader's failure through as it is.
reraiseUnfixed(e) == Raised(e, "")

\* _ExceptionFixer.reraise: WrongRowShape raised from the loader's TypeError.
reraise(e) == Raised("WrongRowShape", e)

\* A translator without the check for more than one row.
translatorFirstRow(noResults, rows) ==
    IF Len(rows) < 1 THEN [outcome |-> noResults, loaded |-> FALSE]
    ELSE LET got == load(rows[1])
         IN [outcome |-> IF got.ok THEN Returned(got.val)
                         ELSE reraise("TypeError"),
             loaded |-> TRUE]

\* _makeTranslator.translator once fetchall has resolved with rows.
translator(noResults, rows) ==
    IF Len(rows) < 1 THEN [outcome |-> noResults, loaded |-> FALSE]
    ELSE IF Len(rows) > 1
         THEN [outcome |-> Raised("TooManyResults", ""), loaded |-> FALSE]
         ELSE LET got == load(rows[1])
              IN [outcome |-> IF got.ok THEN Returned(got.val)
                              ELSE reraise("TypeError"),
                  loaded |-> TRUE]

\* one: noResults raises NotEnoughResults.
one(rows) == translator(Raised("NotEnoughResults", ""), rows)

\* A maybe whose noResults is the one of one.
maybeRaising(rows) == translator(Raised("NotEnoughResults", ""), rows)

\* maybe: noResults returns None.
maybe(rows) == translator(ReturnedNone, rows)

\* A zero that does not look at the row it fetched.
zeroUnchecked(result) == ReturnedNone

\* zero once fetchone has resolved; result is <<>> for None, <<row>> for a row.
zero(result) ==
    IF result # <<>> THEN Raised("TooManyResults", "") ELSE ReturnedNone

\* AsyncCursor.fetchone / fetchall: what the driver may answer on a cursor that
\* has handed out cursor.rows so far.  fetchone answers <<>> for None or
\* <<row>>; fetchall answers the rows that are left.
fetchone(cursor) ==
    {<<>>} \cup (IF Len(cursor.rows) < MaxRows THEN {<<r>> : r \in Rows} ELSE {})
fetchall(cursor) ==
    UNION {[1..n -> Rows] : n \in 0..(MaxRows - Len(cursor.rows))}

(***************************************************************************)
(* accessor: the protocol class's namespace, in definition order, is a     *)
(* sequence of members [name, qm]; qm is NoMetadata for a member no        *)
(* query/statement decorator was applied to.                               *)
(***************************************************************************)
\* set(_EmptyProtocol.__dict__.keys()): of the names a class namespace of
\* this model can hold, those an empty Protocol class holds too.
PROTOCOL_IGNORED_ATTRIBUTES == {"__module__", "__doc__"}

Member(name, qm) == [name |-> name, qm |-> qm]

\* QueryMetadata.loadFrom: getattr(f, METADATA_KEY, None).
loadFrom(value) == value.qm

\* Whether the loop of filterProtocolNamespace records attrname as extraneous.
IsExtraneous(attrname) == attrname \notin PROTOCOL_IGNORED_ATTRIBUTES

\* QueryMetadata.filterProtocolNamespace, consumed to its end: what it
\* yielded and what it raised after the loop.
RECURSIVE filterProtocolNamespace(_, _, _)
filterProtocolNamespace(protocolNamespace, yielded, extraneous) ==
    IF protocolNamespace = <<>>
    THEN [exc |-> IF extraneous # <<>> THEN "ExtraneousMethods" ELSE "none",
          names |-> extraneous, items |-> yielded]
    ELSE LET attr == Head(protocolNamespace)
             qm == loadFrom(attr)
         IN  IF qm.error = "no metadata"
             THEN filterProtocolNamespace(Tail(protocolNamespace), yielded,
                      IF IsExtraneous(attr.name)
                      THEN Append(extraneous, attr.name) ELSE extraneous)
             ELSE filterProtocolNamespace(Tail(protocolNamespace),
                      Append(yielded, attr), extraneous)

\* An accessor that builds the type from what was yielded, whatever was raised.
accessorLenient(protocolNamespace) ==
    LET got == filterProtocolNamespace(protocolNamespace, <<>>, <<>>)
    IN  [exc |-> "none", names |-> <<>>,
         type |-> [n \in {got.items[i].name : i \in 1..Len(got.items)} |->
                     (CHOOSE m \in Range(got.items) : m.name = n).qm]]

\* accessor: the dict comprehension over filterProtocolNamespace, then type().
accessor(protocolNamespace) ==
    LET got == filterProtocolNamespace(protocolNamespace, <<>>, <<>>)
    IN  IF got.exc # "none"
        THEN [exc |-> got.exc, names |-> got.names, type |-> <<>>]
        ELSE [exc |-> "none", names |-> <<>>,
              type |-> [n \in {got.items[i].name : i \in 1..Len(got.items)} |->
                          (CHOOSE m \in Range(got.items) : m.name = n).qm]]

(***************************************************************************)
(* The protocol the calls of Spec are made on: one method per cardinality  *)
(* loader, all over one template that uses a name twice.                   *)
(***************************************************************************)
CallSQL ==
    <<Lit("UPDATE t SET v = "), Ph("b"), Lit(" WHERE k = "), Ph("a"),
      Lit(" AND v <> "), Ph("b")>>
CallParams == <<"self", "a", "b">>
Loaders == {"zero", "one", "maybe", "many"}
CallProtocol ==
    <<Member("__module__", NoMetadata),
      Member("zero", setOn(CallSQL, "zero", CallParams)),
      Member("one", setOn(CallSQL, "one", CallParams)),
      Member("maybe", setOn(CallSQL, "maybe", CallParams)),
      Member("many", setOn(CallSQL, "many", CallParams))>>
CallProxy == accessor(CallProtocol).type

\* The arguments call c passes after the receiver; <<c>> misses one.
ArgLists(c) == {<<c, c + 1>>, <<c>>}
ParamStyles == {"qmark", "pyformat"}

\* sig.bind(None, *args) and apply_defaults: TypeError unless every parameter
\* gets exactly one argument.
bind(sig, args) ==
    IF Len(args) # Len(selfExcluded(sig)) THEN [ok |-> FALSE, arguments |-> <<>>]
    ELSE [ok |-> TRUE,
          arguments |-> [n \in Range(selfExcluded(sig)) |->
              args[CHOOSE i \in 1..Len(args) : selfExcluded(sig)[i] = n]]]

(***************************************************************************)
(* One call of a bound proxy method.                                       *)
(*   pc       "idle" (not called), "created" (MaybeAIterable returned,     *)
(*            body not started), then the suspension the call waits at:    *)
(*            "cursor", "execute", "fetch", "close"; "yield" while the     *)
(*            consumer holds an element; "done"                            *)
(*   mode     how the object was first consumed: "none", "await", "aiter"  *)
(*   times    consumptions started                                         *)
(*   cur      body's local cur; cursorAttr: maybeai.cursor (0: never set)  *)
(*   closing  the cursor whose close() is awaited                          *)
(*   out      the elements the iterating consumer received                 *)
(*   result   the outcome of the first consumption; again: of a later one  *)
(*   log      the operations of the call, in the order they started        *)
(***************************************************************************)
Calls == 1..MaxCalls

IdleCall ==
    [pc |-> "idle", method |-> "", args |-> <<>>, mode |-> "none", times |-> 0,
     cur |-> 0, cursorAttr |-> 0, closing |-> 0, out |-> <<>>,
     pending |-> Nothing, result |-> Nothing, again |-> Nothing, log |-> <<>>]

NewCursor(c) ==
    [owner |-> c, sql |-> <<>>, params |-> <<>>, executed |-> FALSE,
     rows |-> <<>>, closed |-> 0]

qmOf(call) == CallProxy[call.method]

DoneEvent(outcome) ==
    CASE outcome.kind \in {"value", "None", "agen"} -> "deliver"
      [] outcome.kind = "raise" -> "raise"
      [] OTHER -> outcome.kind

\* The consumption ends: the caller gets the outcome.
Done(call, outcome) ==
    [call EXCEPT !.pc = "done", !.pending = Nothing, !.closing = 0,
                 !.result = IF call.times = 1 THEN outcome ELSE @,
                 !.again = IF call.times = 1 THEN @ ELSE outcome,
                 !.log = Append(@, DoneEvent(outcome))]

\* MaybeAIterable.__aiter__'s finally: await self.cursor.close(); the cursor
\* attribute has no default, so reading it before body set it raises.
Finally(call, outcome) ==
    IF call.cursorAttr = 0
    THEN Done(call, Raised("AttributeError", outcome.exc))
    ELSE [call EXCEPT !.pc = "close", !.closing = call.cursorAttr,
                      !.pending = outcome, !.log = Append(@, "close")]

\* A failure inside body or a loader leaves through whoever awaits it: the
\* awaiting caller, or __aiter__ and its finally.
Fail(call, outcome) ==
    IF call.mode = "await" THEN Done(call, outcome) ELSE Finally(call, outcome)

\* A proxyMethod that starts body before it returns.
MaybeAIterableStarted(name, args) ==
    [IdleCall EXCEPT !.pc = "cursor", !.method = name, !.args = args,
                     !.log = <<"lookup", "open">>]

\* proxyMethod: maybeai = MaybeAIterable(body()); the coroutine is not started.
MaybeAIterable(name, args) ==
    [IdleCall EXCEPT !.pc = "created", !.method = name, !.args = args]

proxyMethod(c, name, args) ==
    /\ calls[c].pc = "idle"
    /\ IF c = 1 THEN TRUE ELSE calls[c - 1].pc # "idle"
    /\ calls' = [calls EXCEPT ![c] = MaybeAIterable(name, args)]
    /\ UNCHANGED <<conn, cursors, declVars, schemaVars>>

\* body up to its first suspension: the connection, the rendering of its
\* paramstyle, conn.cursor().
StartBody(call) ==
    [call EXCEPT !.pc = "cursor", !.log = @ \o <<"lookup", "open">>]

\* MaybeAIterable.__await__ on a fresh object.
Await(c) ==
    /\ calls[c].pc = "created"
    /\ calls' = [calls EXCEPT ![c] =
                    StartBody([@ EXCEPT !.mode = "await", !.times = 1])]
    /\ UNCHANGED <<conn, cursors, declVars, schemaVars>>

\* MaybeAIterable.__aiter__ on a fresh object, to its await self.
Iterate(c) ==
    /\ calls[c].pc = "created"
    /\ calls' = [calls EXCEPT ![c] =
                    StartBody([@ EXCEPT !.mode = "aiter", !.times = 1])]
    /\ UNCHANGED <<conn, cursors, declVars, schemaVars>>

\* body from conn.cursor() resolving to cur.execute(...) being awaited.
BindAndExecute(c, call, k) ==
    LET qm == qmOf(call)
        bound == bind(qm.sig, call.args)
        styled == qm.precomputedSQL[conn.paramstyle]
        opened == [call EXCEPT !.cur = k, !.log = Append(@, "bind")]
    IN  IF ~bound.ok
        THEN /\ calls' = [calls EXCEPT ![c] = Fail(opened, Raised("TypeError", ""))]
             /\ cursors' = Append(cursors, NewCursor(c))
        ELSE /\ calls' = [calls EXCEPT ![c] =
                    [opened EXCEPT !.pc = "execute", !.log = Append(@, "execute")]]
             /\ cursors' = Append(cursors,
                    [NewCursor(c) EXCEPT
                        !.sql = styled.sql,
                        !.params = queryArguments(styled.map, bound.arguments)])

CursorResolved(c) ==
    /\ calls[c].pc = "cursor"
    /\ \/ /\ calls' = [calls EXCEPT ![c] = Fail(@, Raised("DriverError", ""))]
          /\ UNCHANGED cursors
       \/ BindAndExecute(c, calls[c], Len(cursors) + 1)
    /\ UNCHANGED <<conn, declVars, schemaVars>>

\* A body that returns the result and leaves the cursor open.
ReturnWithoutClose(call, outcome) == Done(call, outcome)

\* body's awaitable branch once the loader returned: await cur.close(), then
\* return result.
CloseThenReturn(call, outcome) ==
    [call EXCEPT !.pc = "close", !.closing = call.cur, !.pending = outcome,
                 !.log = Append(@, "close")]

\* A body that sets the cursor of a result object all calls share.
SetCursorShared(call) == [call EXCEPT !.cursorAttr = 1]

\* body's other branch: maybeai.cursor = cur; return maybeAgen.
SetCursor(call) == [call EXCEPT !.cursorAttr = call.cur]

\* A coroutine or generator of the call awaits cursor.fetchone()/fetchall().
AwaitFetch(call) == [call EXCEPT !.pc = "fetch", !.log = Append(@, "fetch")]

\* body from cur.execute() resolving: self.load(proxySelf, cur), then the
\* isawaitable test.  An awaitable loader runs to its fetch; the async
\* generator of many is handed back unstarted, and under __aiter__ the async
\* for starts it, up to its first fetchone.
ExecuteResolved(c) ==
    /\ calls[c].pc = "execute"
    /\ \/ /\ calls' = [calls EXCEPT ![c] = Fail(@, Raised("DriverError", ""))]
          /\ UNCHANGED cursors
       \/   /\ cursors' = [cursors EXCEPT ![calls[c].cur].executed = TRUE]
            /\ calls' = [calls EXCEPT ![c] =
                  IF qmOf(@).load # "many" THEN AwaitFetch(@)
                  ELSE IF @.mode = "await" THEN Done(SetCursor(@), ReturnedAgen)
                  ELSE AwaitFetch(SetCursor(@))]
    /\ UNCHANGED <<conn, declVars, schemaVars>>

\* A translateMany that loads a row and goes on to the next without a yield.
translateManyLossy(call, row) ==
    IF row = <<>> THEN Finally(call, Exhausted)
    ELSE LET got == load(row[1])
             loaded == [call EXCEPT !.log = Append(@, "load")]
         IN  IF got.ok
             THEN [loaded EXCEPT !.pc = "fetch", !.log = Append(@, "fetch")]
             ELSE Finally(loaded, reraise("TypeError"))

\* The loop of many.translateMany once fetchone resolved with row (<<>> for
\* None), as __aiter__'s async for drives it.
translateMany(call, row) ==
    IF row = <<>> THEN Finally(call, Exhausted)
    ELSE LET got == load(row[1])
             loaded == [call EXCEPT !.log = Append(@, "load")]
         IN  IF got.ok
             THEN [loaded EXCEPT !.pc = "yield", !.out = Append(@, got.val),
                                 !.log = Append(@, "yield")]
             ELSE Finally(loaded, reraise("TypeError"))

\* An awaitable loader's outcome reaches body: a failure leaves body, a
\* result goes on to the close.
Translated(call, t) ==
    LET logged == IF t.loaded THEN [call EXCEPT !.log = Append(@, "load")]
                  ELSE call
    IN  IF t.outcome.kind = "raise" THEN Fail(logged, t.outcome)
        ELSE CloseThenReturn(logged, t.outcome)

FetchResolved(c) ==
    LET call == calls[c]
        k == call.cur
        ld == qmOf(call).load
    IN  /\ call.pc = "fetch"
        /\ \/ /\ calls' = [calls EXCEPT ![c] = Fail(@, Raised("DriverError", ""))]
              /\ UNCHANGED cursors
           \/ /\ ld \in {"zero", "many"}
              /\ \E row \in fetchone(cursors[k]) :
                    /\ cursors' = [cursors EXCEPT ![k].rows = @ \o row]
                    /\ calls' = [calls EXCEPT ![c] =
                          IF ld = "many" THEN translateMany(@, row)
                          ELSE Translated(@, [outcome |-> zero(row),
                                              loaded |-> FALSE])]
           \/ /\ ld \in {"one", "maybe"}
              /\ \E rows \in fetchall(cursors[k]) :
                    /\ cursors' = [cursors EXCEPT ![k].rows = @ \o rows]
                    /\ calls' = [calls EXCEPT ![c] =
                          Translated(@, IF ld = "one" THEN one(rows)
                                        ELSE maybe(rows))]
        /\ UNCHANGED <<conn, declVars, schemaVars>>

\* The consumer asks for the next element: __aiter__ and translateMany resume
\* after their yields, to the next fetchone.
NextElement(c) ==
    /\ calls[c].pc = "yield"
    /\ calls' = [calls EXCEPT ![c] = AwaitFetch(@)]
    /\ UNCHANGED <<conn, cursors, declVars, schemaVars>>

\* The consumer abandons the iteration: aclose() raises GeneratorExit at
\* __aiter__'s yield and its finally runs.
Abandon(c) ==
    /\ calls[c].pc = "yield"
    /\ calls' = [calls EXCEPT ![c] = Finally(@, Closed)]
    /\ UNCHANGED <<conn, cursors, declVars, schemaVars>>

\* cursor.close() resolves.  In body the result is then returned; when it is
\* __aiter__ that awaited body, async for over a value that is no async
\* iterable raises TypeError into the finally.  In __aiter__'s finally the
\* pending outcome goes on to the consumer.
CloseResolved(c) ==
    LET call == calls[c]
    IN  /\ call.pc = "close"
        /\ cursors' = [cursors EXCEPT ![call.closing].closed = @ + 1]
        /\ calls' = [calls EXCEPT ![c] =
              IF call.times = 1 /\ call.mode = "aiter" /\ qmOf(call).load # "many"
              THEN Finally([call EXCEPT !.log = Append(@, "return")],
                           Raised("TypeError", ""))
              ELSE Done(call, call.pending)]
        /\ UNCHANGED <<conn, declVars, schemaVars>>

\* MaybeAIterable.__await__ again: the coroutine body() was already awaited.
AwaitAgain(c) ==
    /\ calls[c].pc = "done"
    /\ calls[c].times < MaxConsume
    /\ calls' = [calls EXCEPT ![c] =
          Done([@ EXCEPT !.times = @ + 1], Raised("RuntimeError", ""))]
    /\ UNCHANGED <<conn, cursors, declVars, schemaVars>>

\* MaybeAIterable.__aiter__ again: a new generator whose await self raises,
\* and whose finally runs.
IterateAgain(c) ==
    /\ calls[c].pc = "done"
    /\ calls[c].times < MaxConsume
    /\ calls' = [calls EXCEPT ![c] =
          Finally([@ EXCEPT !.times = @ + 1], Raised("RuntimeError", ""))]
    /\ UNCHANGED <<conn, cursors, declVars, schemaVars>>

(***************************************************************************)
(* The specification of the calls.                                         *)
(***************************************************************************)
InitialClassBody == <<Member("__module__", NoMetadata)>>
NoFailure == [exc |-> "none", names |-> <<>>, params |-> <<>>]
NoQuery == [sql |-> <<>>, params |-> <<>>, applied |-> FALSE]

Init ==
    /\ conn \in [paramstyle : ParamStyles]
    /\ calls = [c \in Calls |-> IdleCall]
    /\ cursors = <<>>
    /\ classBody = InitialClassBody
    /\ defState = "defining"
    /\ raised = NoFailure
    /\ proxyType = <<>>
    /\ rejected = NoQuery
    /\ schema = <<>>
    /\ current = 0
    /\ workingTables = <<>>
    /\ decorators = <<>>
    /\ thrown = "none"
    /\ trace = <<>>

Next ==
    \E c \in Calls :
        \/ \E name \in Loaders, args \in ArgLists(c) : proxyMethod(c, name, args)
        \/ Await(c)
        \/ Iterate(c)
        \/ CursorResolved(c)
        \/ ExecuteResolved(c)
        \/ FetchResolved(c)
        \/ NextElement(c)
        \/ Abandon(c)
        \/ CloseResolved(c)
        \/ AwaitAgain(c)
        \/ IterateAgain(c)

Spec == Init /\ [][Next]_vars

(***************************************************************************)
(* The definition of a protocol class and accessor.                        *)
(***************************************************************************)
Pieces == {Lit("x"), Ph("a"), Ph("b")}
Templates == UNION {[1..n -> Pieces] : n \in 0..MaxTemplate}
ParamLists ==
    {<<"self">>, <<"self", "a">>, <<"self", "b">>, <<"self", "a", "b">>,
     <<"self", "b", "a">>, <<"a", "b">>}
MethodNames == {"get", "put"}
MemberNames == MethodNames \cup {"__doc__"}
QueryLoaders == {"one"}

\* The class namespace is a dict: a name defined again keeps its place.
Define(body, name, qm) ==
    IF \E i \in 1..Len(body) : body[i].name = name
    THEN [i \in 1..Len(body) |->
            IF body[i].name = name THEN Member(name, qm) ELSE body[i]]
    ELSE Append(body, Member(name, qm))

Declared(body) == Len(body) - Len(InitialClassBody)

\* query(sql=, load=) applied to a method of the class body: qm.setOn(f).  A
\* ParamMismatch leaves the class statement: its namespace is dropped and no
\* class is made.
query(name, sql, ld, params) ==
    LET qm == setOn(sql, ld, params)
    IN  /\ defState = "defining"
        /\ Declared(Define(classBody, name, qm)) <= MaxMembers
        /\ IF qm.error = "ParamMismatch"
           THEN /\ defState' = "aborted"
                /\ rejected' = [sql |-> sql, params |-> params, applied |-> TRUE]
                /\ raised' = [exc |-> "ParamMismatch",
                              names |-> format_map(sql, <<>>,
                                  IndexCountingParamstyleMap(styles["qmark"])).map.names,
                              params |-> selfExcluded(params)]
                /\ classBody' = <<>>
           ELSE /\ classBody' = Define(classBody, name, qm)
                /\ UNCHANGED <<defState, raised, rejected>>
        /\ UNCHANGED <<proxyType, callVars, schemaVars>>

\* statement(sql=): query(sql=sql, load=zero).
statement(name, sql, params) == query(name, sql, "zero", params)

\* A member of the class body that no decorator was applied to.
plain(name) ==
    /\ defState = "defining"
    /\ Declared(Define(classBody, name, NoMetadata)) <= MaxMembers
    /\ classBody' = Define(classBody, name, NoMetadata)
    /\ UNCHANGED <<defState, raised, proxyType, rejected, callVars, schemaVars>>

\* accessor(accessPatternProtocol) on the class as defined so far.
accessorCall ==
    LET got == accessor(classBody)
    IN  /\ defState = "defining"
        /\ IF got.exc # "none"
           THEN /\ defState' = "rejected"
                /\ raised' = [exc |-> got.exc, names |-> got.names, params |-> <<>>]
                /\ UNCHANGED proxyType
           ELSE /\ defState' = "built"
                /\ proxyType' = got.type
                /\ UNCHANGED raised
        /\ UNCHANGED <<classBody, rejected, callVars, schemaVars>>

NextDecl ==
    \/ \E name \in MethodNames, sql \in Templates, params \in ParamLists :
        \/ \E ld \in QueryLoaders : query(name, sql, ld, params)
        \/ statement(name, sql, params)
    \/ \E name \in MemberNames : plain(name)
    \/ accessorCall

InitDecl == Init /\ conn.paramstyle = "qmark"

SpecDecl == InitDecl /\ [][NextDecl]_vars

(***************************************************************************)
(* The schema builder.  A str is the sequence of its fragments, + is \o.   *)
(* A _WorkingTable is an object: workingTables holds the objects by        *)
(* number, back and current are numbers (0 for None) and `is` compares     *)
(* numbers.                                                                *)
(***************************************************************************)
\* sep.join(items): the items with sep between each two.
RECURSIVE join(_, _)
join(sep, items) ==
    IF items = <<>> THEN <<>>
    ELSE IF Len(items) = 1 THEN items
    ELSE <<Head(items), sep>> \o join(sep, Tail(items))

\* _tableSchema.format(tableName=, columns=).
tableSchema(tableName, columns) ==
    <<"CREATE TABLE IF NOT EXISTS ", tableName, " (\n    ">>
        \o columns \o <<"\n);\n">>

\* A _WorkingTable that forgets the table it was opened in.
WorkingTableDetached(back) ==
    [back |-> 0, columns |-> <<>>, constraints |-> <<>>]

\* _WorkingTable(back): columns and constraints start empty.
WorkingTable(back) == [back |-> back, columns |-> <<>>, constraints |-> <<>>]

\* _TableStack.get: RuntimeError when no table is being defined.
get ==
    IF current = 0 THEN [exc |-> "RuntimeError", table |-> 0]
    ELSE [exc |-> "none", table |-> current]

\* A pop that leaves current where it is.
popKeeping == [exc |-> get.exc, result |-> get.table, current |-> current]

\* _TableStack.pop: current becomes the back of what get returned.
pop ==
    IF get.exc # "none" THEN [exc |-> get.exc, result |-> 0, current |-> current]
    ELSE [exc |-> "none", result |-> get.table,
          current |-> workingTables[get.table].back]

\* A listing with the constraints before the columns.
listConstraintsFirst(work) == work.constraints \o work.columns

\* work.columns + work.constraints.
listColumnsThenConstraints(work) == work.columns \o work.constraints

Event(op, text, decorator) == [op |-> op, text |-> text, decorator |-> decorator]

TableNames == {"hello", "goodbye"}
ColumnTexts == {"foo INTEGER NOT NULL", "bar TEXT NOT NULL"}
ConstraintTexts == {"UNIQUE (foo)"}

\* SchemaBuilder.table(tableName): _TableStack.push and the closure
\* buildSchema over work and tableName.
table(tableName) ==
    /\ Len(trace) < MaxOps
    /\ Len(decorators) < MaxTables
    /\ workingTables' = Append(workingTables, WorkingTable(current))
    /\ current' = Len(workingTables) + 1
    /\ decorators' = Append(decorators,
           [tableName |-> tableName, work |-> Len(workingTables) + 1])
    /\ thrown' = "none"
    /\ trace' = Append(trace, Event("table", tableName, Len(decorators) + 1))
    /\ UNCHANGED <<schema, callVars, declVars>>

\* buildSchema(c) of decorator d: the pop is made before its result is
\* compared with work; the statement is appended when they are the same.
buildSchema(d) ==
    LET closure == decorators[d]
        work == workingTables[closure.work]
    IN  /\ Len(trace) < MaxOps
        /\ trace' = Append(trace, Event("buildSchema", closure.tableName, d))
        /\ current' = pop.current
        /\ IF pop.exc # "none"
           THEN /\ thrown' = pop.exc
                /\ UNCHANGED schema
           ELSE IF pop.result # closure.work
           THEN /\ thrown' = "AssertionError"
                /\ UNCHANGED schema
           ELSE /\ thrown' = "none"
                /\ schema' = schema \o
                       tableSchema(closure.tableName,
                           join(",\n    ", listColumnsThenConstraints(work)))
        /\ UNCHANGED <<workingTables, decorators, callVars, declVars>>

\* SchemaBuilder.column(columnText).
column(columnText) ==
    /\ Len(trace) < MaxOps
    /\ trace' = Append(trace, Event("column", columnText, 0))
    /\ IF get.exc # "none"
       THEN /\ thrown' = get.exc
            /\ UNCHANGED workingTables
       ELSE /\ thrown' = "none"
            /\ workingTables' =
                   [workingTables EXCEPT ![get.table].columns = Append(@, columnText)]
    /\ UNCHANGED <<schema, current, decorators, callVars, declVars>>

\* SchemaBuilder.constraint(constraintText).
constraint(constraintText) ==
    /\ Len(trace) < MaxOps
    /\ trace' = Append(trace, Event("constraint", constraintText, 0))
    /\ IF get.exc # "none"
       THEN /\ thrown' = get.exc
            /\ UNCHANGED workingTables
       ELSE /\ thrown' = "none"
            /\ workingTables' =
                   [workingTables EXCEPT ![get.table].constraints =
                       Append(@, constraintText)]
    /\ UNCHANGED <<schema, current, decorators, callVars, declVars>>

NextSchema ==
    \/ \E tableName \in TableNames : table(tableName)
    \/ \E d \in 1..Len(decorators) : buildSchema(d)
    \/ \E columnText \in ColumnTexts : column(columnText)
    \/ \E constraintText \in ConstraintTexts : constraint(constraintText)

InitSchema == Init /\ conn.paramstyle = "qmark"

SpecSchema == InitSchema /\ [][NextSchema]_vars

(***************************************************************************)
(* Properties of the calls (Spec).                                         *)
(***************************************************************************)
CursorsOf(c) == {k \in 1..Len(cursors) : cursors[k].owner = c}
LoaderOf(c) == qmOf(calls[c]).load
Called(c) == calls[c].pc # "idle"

\* The first consumption of call c is over and the object was not used again.
ConsumedOnce(c) == calls[c].pc = "done" /\ calls[c].times = 1

\* The loader's fetch of call c resolved with rows (the driver did not fail),
\* and the first consumption is over.
Fetched(c) ==
    /\ calls[c].pc = "done"
    /\ \E i \in 1..Len(calls[c].log) : calls[c].log[i] = "fetch"
    /\ calls[c].result.exc # "DriverError"

RowsOf(c) == cursors[calls[c].cur].rows

Count(log, e) == Cardinality({i \in 1..Len(log) : log[i] = e})

\* C1: for every consumed call of cardinality zero, one or maybe, exactly one
\* cursor is opened and it is closed exactly once, on success and on failure
\* (count violation, row-shape error, failure while binding or executing): by
\* the time the outcome reaches the caller every cursor opened for the call
\* has been closed once, and no call opens a second cursor.
C1_CursorClosedOnce ==
    \A c \in Calls :
        (Called(c) /\ LoaderOf(c) \in {"zero", "one", "maybe"} /\ ConsumedOnce(c))
            => /\ Cardinality(CursorsOf(c)) <= 1
               /\ \A k \in CursorsOf(c) : cursors[k].closed = 1

\* C2: for a many-cardinality call consumed as a lazy sequence, the cursor
\* opened for the call is closed exactly once when the iteration is over,
\* whether it was exhausted, abandoned or raised (a failure of execute or of
\* the row-loader included).
C2_ManyCursorClosedOnce ==
    \A c \in Calls :
        (Called(c) /\ LoaderOf(c) = "many" /\ calls[c].mode = "aiter"
            /\ ConsumedOnce(c))
            => \A k \in CursorsOf(c) : cursors[k].closed = 1

\* C3: calling a bound proxy method returns the result object before any
\* I/O: as long as the object has not been consumed, the call has started no
\* operation, owns no cursor and has no outcome.
C3_NoIOBeforeConsumption ==
    \A c \in Calls :
        calls[c].mode = "none"
            => /\ calls[c].pc \in {"idle", "created"}
               /\ calls[c].log = <<>>
               /\ CursorsOf(c) = {}
               /\ calls[c].result = Nothing

\* A result object is left unconsumed while another call ran to its end on a
\* cursor.
C3_Witness ==
    /\ calls[1].pc = "created"
    /\ calls[2].pc = "done"
    /\ CursorsOf(2) # {}

Steps == <<"lookup", "open", "bind", "execute">>
Pending == [cursor |-> "open", execute |-> "execute", fetch |-> "fetch",
            close |-> "close"]

\* C4: within one call the steps start in the order render lookup, cursor
\* open, bind, execute, translate (fetch, then load), and none starts while
\* the suspension of the one before is pending; for cardinality zero, one and
\* maybe the close comes right after the translation and right before the
\* value is delivered.
C4_StepsInOrder ==
    \A c \in Calls :
        LET log == calls[c].log
        IN  /\ \A i \in 1..Len(log) :
                /\ \A k \in 1..Len(Steps) :
                    log[i] = Steps[k] => (i = k /\ \A j \in 1..k : log[j] = Steps[j])
                /\ log[i] \in {"fetch", "load", "yield", "close", "deliver", "return"}
                    => (i > Len(Steps) /\ \A j \in 1..Len(Steps) : log[j] = Steps[j])
                /\ log[i] = "load" => log[i - 1] = "fetch"
                /\ (log[i] \in {"deliver", "return"} /\ LoaderOf(c) # "many")
                    => /\ log[i - 1] = "close"
                       /\ log[i - 2] \in {"fetch", "load"}
                       /\ cursors[calls[c].cur].closed = 1
            /\ calls[c].pc \in DOMAIN Pending
                => log[Len(log)] = Pending[calls[c].pc]

\* A one-cardinality call went through every step and delivered its value.
C4_Witness ==
    \E c \in Calls :
        /\ Called(c) /\ LoaderOf(c) = "one"
        /\ calls[c].result.kind = "value"
        /\ calls[c].log = <<"lookup", "open", "bind", "execute", "fetch", "load",
                            "close", "deliver">>

\* C5: for a one-cardinality query awaited by its caller, zero rows fail with
\* NotEnoughResults, exactly one row returns the row-loader's value for that
\* row, and two or more rows fail with TooManyResults without the row-loader
\* being applied.
C5_OneCardinality ==
    \A c \in Calls :
        (Called(c) /\ LoaderOf(c) = "one" /\ calls[c].mode = "await" /\ Fetched(c))
            => LET rows == RowsOf(c)
               IN  /\ Len(rows) = 0
                        => calls[c].result = Raised("NotEnoughResults", "")
                   /\ (Len(rows) = 1 /\ load(rows[1]).ok)
                        => calls[c].result = Returned(load(rows[1]).val)
                   /\ Len(rows) >= 2
                        => /\ calls[c].result = Raised("TooManyResults", "")
                           /\ Count(calls[c].log, "load") = 0

\* One one-cardinality call returned its row's value, another failed on two
\* rows.
C5_Witness ==
    /\ Called(1) /\ LoaderOf(1) = "one" /\ Fetched(1)
    /\ Len(RowsOf(1)) = 1 /\ calls[1].result.kind = "value"
    /\ Called(2) /\ LoaderOf(2) = "one" /\ Fetched(2)
    /\ Len(RowsOf(2)) = 2 /\ calls[2].result.exc = "TooManyResults"

\* C6: for a maybe-cardinality query awaited by its caller, zero rows give
\* None and no failure, exactly one row gives the row-loader's value, and
\* two or more rows fail with TooManyResults.
C6_MaybeCardinality ==
    \A c \in Calls :
        (Called(c) /\ LoaderOf(c) = "maybe" /\ calls[c].mode = "await" /\ Fetched(c))
            => LET rows == RowsOf(c)
               IN  /\ Len(rows) = 0 => calls[c].result = ReturnedNone
                   /\ (Len(rows) = 1 /\ load(rows[1]).ok)
                        => calls[c].result = Returned(load(rows[1]).val)
                   /\ Len(rows) >= 2
                        => calls[c].result = Raised("TooManyResults", "")

\* One maybe-cardinality call gave None on zero rows, another failed on two.
C6_Witness ==
    /\ Called(1) /\ LoaderOf(1) = "maybe" /\ Fetched(1)
    /\ Len(RowsOf(1)) = 0 /\ calls[1].result.kind = "None"
    /\ Called(2) /\ LoaderOf(2) = "maybe" /\ Fetched(2)
    /\ Len(RowsOf(2)) = 2 /\ calls[2].result.exc = "TooManyResults"

\* C7: for a many-cardinality query iterated by its caller, the i-th element
\* produced is the row-loader applied to the i-th row the driver returned,
\* and when the driver has returned n rows and then none, the sequence has
\* produced exactly n elements and ends.
C7_ManyYieldsEveryRow ==
    \A c \in Calls :
        (Called(c) /\ LoaderOf(c) = "many" /\ calls[c].mode = "aiter"
            /\ calls[c].cur # 0)
            => LET rows == RowsOf(c)
                   out == calls[c].out
               IN  /\ Len(out) <= Len(rows)
                   /\ \A i \in 1..Len(out) :
                        load(rows[i]).ok /\ out[i] = load(rows[i]).val
                   /\ calls[c].pc = "yield" => Len(out) = Len(rows)
                   /\ calls[c].result.kind = "stop"
                        => /\ Len(out) = Len(rows)
                           /\ Count(calls[c].log, "fetch") = Len(rows) + 1
                   /\ (Fetched(c) /\ calls[c].result.kind # "aclose"
                            /\ \A i \in 1..Len(rows) : load(rows[i]).ok)
                        => calls[c].result = Exhausted

\* An iteration over two different rows ended after both elements.
C7_Witness ==
    \E c \in Calls :
        /\ Called(c) /\ LoaderOf(c) = "many"
        /\ calls[c].result.kind = "stop"
        /\ Len(calls[c].out) = 2
        /\ calls[c].out[1] # calls[c].out[2]

\* C8: for a zero-cardinality statement the loader fetches at most one row;
\* a row fails the call with TooManyResults, no row makes it return None.
C8_ZeroCardinality ==
    \A c \in Calls :
        (Called(c) /\ LoaderOf(c) = "zero" /\ calls[c].cur # 0)
            => /\ Len(RowsOf(c)) <= 1
               /\ Count(calls[c].log, "fetch") <= 1
               /\ (calls[c].mode = "await" /\ Fetched(c))
                    => /\ Len(RowsOf(c)) = 1
                            => calls[c].result = Raised("TooManyResults", "")
                       /\ Len(RowsOf(c)) = 0 => calls[c].result = ReturnedNone

\* One statement returned None, another failed on a row.
C8_Witness ==
    /\ Called(1) /\ LoaderOf(1) = "zero" /\ Fetched(1)
    /\ calls[1].result.kind = "None"
    /\ Called(2) /\ LoaderOf(2) = "zero" /\ Fetched(2)
    /\ Len(RowsOf(2)) = 1 /\ calls[2].result.exc = "TooManyResults"

\* The text a call's template has under a paramstyle, written out: every
\* {a} and {b} of the declaration replaced by the style's token.
RenderedCallSQL(token) ==
    <<"UPDATE t SET v = ", token, " WHERE k = ", token, " AND v <> ", token>>

\* C11: the SQL a call executes has the dialect's token at every occurrence
\* of a placeholder, and the positional parameter list has one entry per
\* occurrence, in the order of the occurrences: the template names b, a, b,
\* so a call with a = x and b = y executes with <<y, x, y>>, the value of b
\* appearing twice.
C11_PlaceholderOrder ==
    \A k \in 1..Len(cursors) :
        LET call == calls[cursors[k].owner]
        IN  Count(call.log, "execute") = 1
                => /\ cursors[k].sql =
                          RenderedCallSQL(IF conn.paramstyle = "qmark"
                                          THEN "?" ELSE "%s")
                   /\ cursors[k].params =
                          <<call.args[2], call.args[1], call.args[2]>>
                   /\ qmOf(call).precomputedSQL[conn.paramstyle].map.names
                          = <<"b", "a", "b">>

\* Two calls executed under pyformat, each with its own three parameters.
C11_Witness ==
    /\ conn.paramstyle = "pyformat"
    /\ Len(cursors) = 2
    /\ cursors[1].executed /\ cursors[2].executed
    /\ cursors[1].params = <<2, 1, 2>>
    /\ cursors[2].params = <<3, 2, 3>>

\* Call c was consumed in the style of its cardinality: awaited for zero, one
\* and maybe, iterated for many.
ConsumedInStyle(c) ==
    calls[c].mode = (IF LoaderOf(c) = "many" THEN "aiter" ELSE "await")

\* The row-loader of call c was given a row it cannot accept: the one row
\* fetchall answered for one and maybe, the row fetched last for many.
LoaderRejectedRow(c) ==
    IF Count(calls[c].log, "load") = 0 THEN FALSE
    ELSE LET rows == RowsOf(c)
         IN  /\ Count(calls[c].log, "load") = Len(rows)
             /\ Len(rows[Len(rows)]) # 1

\* C13: under one, maybe and many, consumed in the style of the cardinality,
\* the caller receives WrongRowShape exactly when the row-loader was given a
\* row of the wrong arity, WrongRowShape always carries the loader's
\* TypeError as its cause, and a call whose loader ran never ends with the
\* raw TypeError.
C13_WrongRowShape ==
    \A c \in Calls :
        (Called(c) /\ LoaderOf(c) \in {"one", "maybe", "many"}
            /\ ConsumedOnce(c) /\ ConsumedInStyle(c))
            => /\ LoaderRejectedRow(c) <=> calls[c].result.exc = "WrongRowShape"
               /\ calls[c].result.exc = "WrongRowShape"
                      => calls[c].result.cause = "TypeError"
               /\ Count(calls[c].log, "load") > 0
                      => calls[c].result.exc # "TypeError"

\* An awaited one call got a row of two columns, and an iterated many call
\* yielded one element before a row of two columns.
C13_Witness ==
    /\ calls[1].method = "one" /\ calls[1].mode = "await"
    /\ calls[1].result = Raised("WrongRowShape", "TypeError")
    /\ calls[2].method = "many" /\ calls[2].mode = "aiter"
    /\ Len(calls[2].out) = 1
    /\ calls[2].result = Raised("WrongRowShape", "TypeError")
    /\ ConsumedOnce(1) /\ ConsumedOnce(2)

\* C14: a result consumed in the style its cardinality does not have (a many
\* result awaited, a zero, one or maybe result iterated) fails: the
\* consumption ends with an exception, never with a value, an iterator or a
\* normal end of iteration.
C14_WrongStyleFails ==
    \A c \in Calls :
        (Called(c) /\ ConsumedOnce(c) /\ ~ConsumedInStyle(c))
            => calls[c].result.kind = "raise"

\* C17: a many result that was iterated to exhaustion and is then consumed
\* again gives no further element, its statement is not executed again, and
\* its cursor is not closed again: from the exhaustion on the call's log
\* holds one execute and one close, the cursor has been closed once, and
\* every element delivered was delivered before the exhaustion.
C17_NotRestartable ==
    \A c \in Calls :
        (Called(c) /\ LoaderOf(c) = "many" /\ calls[c].mode = "aiter"
            /\ calls[c].result = Exhausted /\ calls[c].times > 1)
            => /\ Count(calls[c].log, "execute") = 1
               /\ Count(calls[c].log, "close") = 1
               /\ cursors[calls[c].cur].closed = 1
               /\ Len(calls[c].out) = Len(RowsOf(c))
               /\ CursorsOf(c) = {calls[c].cur}

\* The closes of call c that resolved.
ClosesResolved(c) ==
    Count(calls[c].log, "close") - (IF calls[c].pc = "close" THEN 1 ELSE 0)

\* C18: however the calls on the proxy interleave, each call has its own
\* cursor (no two calls use one cursor, no call opens two), the statement of
\* a cursor is executed with the arguments of the call that opened it, a call
\* awaits the close of no cursor but its own, so a cursor has been closed as
\* often as its own call closed it, and every execution, the first as the
\* last, uses the same rendering of the template.
C18_CallsIndependent ==
    /\ \A k \in 1..Len(cursors) :
           LET c == cursors[k].owner
           IN  /\ calls[c].cur = k
               /\ cursors[k].closed = ClosesResolved(c)
               /\ cursors[k].params # <<>>
                      => /\ cursors[k].params =
                                <<calls[c].args[2], calls[c].args[1],
                                  calls[c].args[2]>>
                         /\ \A j \in 1..Len(cursors) :
                                cursors[j].params # <<>>
                                    => cursors[j].sql = cursors[k].sql
    /\ \A c \in Calls :
           /\ calls[c].closing \in {0, calls[c].cur}
           /\ calls[c].cursorAttr \in {0, calls[c].cur}
           /\ Cardinality(CursorsOf(c)) <= 1

\* Two calls interleaved: the second call's cursor was opened and its
\* statement executed while the first call waited for its rows, and the
\* second call closed its cursor first.
C18_Witness ==
    /\ Len(cursors) = 2
    /\ cursors[1].params = <<2, 1, 2>> /\ cursors[2].params = <<3, 2, 3>>
    /\ calls[1].pc = "fetch"
    /\ cursors[1].rows = <<>>
    /\ cursors[1].closed = 0
    /\ calls[2].pc = "done"
    /\ cursors[2].closed = 1

(***************************************************************************)
(* Properties of the definition of a protocol (SpecDecl).                  *)
(***************************************************************************)
\* The placeholder names of a template and the parameter names of a
\* signature after the receiver, read off the declaration itself.
PlaceholderSet(sql) == {sql[i].text : i \in {j \in 1..Len(sql) : sql[j].kind = "ph"}}
ParamSet(params) == {params[i] : i \in 2..Len(params)}

Annotated(body) == {i \in 1..Len(body) : body[i].qm.error = "none"}
Unannotated(body) == {i \in 1..Len(body) : body[i].qm.error = "no metadata"}

\* C9: a method whose template's placeholder names differ from its parameter
\* names without the receiver is rejected with ParamMismatch when it is
\* declared, which ends the definition before any proxy type exists; a method
\* whose two sets are equal is declared without ParamMismatch, so every
\* declared method and every method of a proxy type has equal sets.
C9_ParamMismatchAtDefinition ==
    /\ rejected.applied
        => /\ PlaceholderSet(rejected.sql) # ParamSet(rejected.params)
           /\ raised.exc = "ParamMismatch"
           /\ defState = "aborted"
           /\ classBody = <<>>
           /\ DOMAIN proxyType = {}
    /\ raised.exc = "ParamMismatch" => rejected.applied
    /\ \A i \in Annotated(classBody) :
           PlaceholderSet(classBody[i].qm.sql) = ParamSet(classBody[i].qm.sig)
    /\ \A n \in DOMAIN proxyType :
           PlaceholderSet(proxyType[n].sql) = ParamSet(proxyType[n].sig)

\* A template that uses one of the two parameters of its method was rejected.
C9_Witness ==
    /\ rejected.applied
    /\ rejected.params = <<"self", "a", "b">>
    /\ PlaceholderSet(rejected.sql) = {"a"}
    /\ raised.exc = "ParamMismatch"

\* C10 as stated: an interface with at least one member without
\* query/statement annotation is rejected with ExtraneousMethods listing
\* exactly the members without annotation, and an interface whose members all
\* carry one yields a proxy type of exactly the bound-call closures.
C10_AllUnannotatedRejected ==
    defState \in {"built", "rejected"}
        => LET plainNames == {classBody[i].name : i \in Unannotated(classBody)}
           IN  IF plainNames # {}
               THEN /\ defState = "rejected"
                    /\ raised.exc = "ExtraneousMethods"
                    /\ Range(raised.names) = plainNames
               ELSE /\ defState = "built"
                    /\ DOMAIN proxyType =
                           {classBody[i].name : i \in Annotated(classBody)}

\* C10 as the code has it: an interface with at least one member without
\* annotation whose name is not in PROTOCOL_IGNORED_ATTRIBUTES is rejected
\* with ExtraneousMethods listing exactly those members, each once; any other
\* interface yields a proxy type whose methods are exactly the bound-call
\* closures of its annotated members.
C10_ExtraneousMethods ==
    defState \in {"built", "rejected"}
        => LET extraneous ==
                   {classBody[i].name : i \in
                       {j \in Unannotated(classBody) :
                           classBody[j].name \notin PROTOCOL_IGNORED_ATTRIBUTES}}
           IN  IF extraneous # {}
               THEN /\ defState = "rejected"
                    /\ raised.exc = "ExtraneousMethods"
                    /\ Range(raised.names) = extraneous
                    /\ Len(raised.names) = Cardinality(extraneous)
                    /\ DOMAIN proxyType = {}
               ELSE /\ defState = "built"
                    /\ raised = NoFailure
                    /\ DOMAIN proxyType =
                           {classBody[i].name : i \in Annotated(classBody)}
                    /\ \A i \in Annotated(classBody) :
                           proxyType[classBody[i].name] = classBody[i].qm

\* An interface with an annotated and a plain method was rejected for the
\* plain one alone.
C10_Witness ==
    /\ defState = "rejected"
    /\ Annotated(classBody) # {}
    /\ Len(raised.names) = 1
    /\ raised.names[1] \in MethodNames

\* The number of times x occurs in a sequence.
Occurrences(seq, x) == Cardinality({i \in 1..Len(seq) : seq[i] = x})

\* The placeholder order each style's rendering of a declared method recorded.
placeholderOrder(qm, style) == qm.precomputedSQL[style].map.names

\* C12 as stated: for every declaration that passed the definition-time
\* validation, the placeholder order of each dialect rendering has the same
\* multiset of names as the method's parameters after the receiver: every
\* name occurs in the order as often as among the parameters.
C12_SameMultiset ==
    \A i \in Annotated(classBody) :
        \A style \in ParamStyles :
            \A n \in {"a", "b"} :
                Occurrences(placeholderOrder(classBody[i].qm, style), n)
                    = Occurrences(selfExcluded(classBody[i].qm.sig), n)

\* C12 as the code has it: for every declaration that passed the validation,
\* the placeholder order of each dialect rendering has the same set of names
\* as the method's parameters after the receiver; a name occurs in the order
\* once per occurrence in the template, which may be more than once.
C12_SameSet ==
    \A i \in Annotated(classBody) :
        \A style \in ParamStyles :
            /\ Range(placeholderOrder(classBody[i].qm, style))
                   = ParamSet(classBody[i].qm.sig)
            /\ \A n \in {"a", "b"} :
                   Occurrences(placeholderOrder(classBody[i].qm, style), n)
                       = Occurrences(
                             [j \in 1..Len(classBody[i].qm.sql) |->
                                 IF classBody[i].qm.sql[j].kind = "ph"
                                 THEN classBody[i].qm.sql[j].text ELSE ""], n)

\* A method with the one parameter a whose template names a twice was
\* declared: its placeholder order is <<a, a>>.
C12_Witness ==
    \E i \in Annotated(classBody) :
        /\ classBody[i].qm.sig = <<"self", "a">>
        /\ placeholderOrder(classBody[i].qm, "pyformat") = <<"a", "a">>

\* The arguments a call may bind to the parameters a and b.
BoundArguments == [{"a", "b"} -> 1..2]

\* The values of the placeholders of a template, in the order the template
\* names them.
ValuesInTemplateOrder(sql, bound) ==
    LET at == {i \in 1..Len(sql) : sql[i].kind = "ph"}
    IN  [k \in 1..Cardinality(at) |->
            bound[sql[CHOOSE i \in at :
                          Cardinality({j \in at : j < i}) = k - 1].text]]

IsPermutation(s, t) ==
    /\ Len(s) = Len(t)
    /\ \A v \in Range(s) \cup Range(t) : Occurrences(s, v) = Occurrences(t, v)

\* C19: for every declared method and every binding of its parameters, the
\* positional arguments built under qmark and under pyformat are each the
\* bound values in the order that rendering recorded, which is the order of
\* the template; the two lists are permutations of each other; the two
\* renderings differ in the token only; and the names the pyformat rendering
\* recorded are the method's parameters, as the check made on the qmark
\* rendering requires.
C19_DialectsAgree ==
    \A i \in Annotated(classBody) :
        LET qm == classBody[i].qm
            q == qm.precomputedSQL["qmark"]
            p == qm.precomputedSQL["pyformat"]
        IN  /\ \A bound \in BoundArguments :
                   /\ queryArguments(q.map, bound)
                          = ValuesInTemplateOrder(qm.sql, bound)
                   /\ queryArguments(p.map, bound)
                          = ValuesInTemplateOrder(qm.sql, bound)
                   /\ IsPermutation(queryArguments(q.map, bound),
                                    queryArguments(p.map, bound))
            /\ Len(q.sql) = Len(p.sql)
            /\ \A k \in 1..Len(q.sql) :
                   IF qm.sql[k].kind = "ph"
                   THEN q.sql[k] = "?" /\ p.sql[k] = "%s"
                   ELSE q.sql[k] = qm.sql[k].text /\ p.sql[k] = q.sql[k]
            /\ Range(q.map.names) = ParamSet(qm.sig)
            /\ Range(p.map.names) = ParamSet(qm.sig)

\* A method (self, a, b) whose template names b before a was declared: with
\* a = 1 and b = 2 both dialects pass <<2, 1>>.
C19_Witness ==
    \E i \in Annotated(classBody) :
        LET qm == classBody[i].qm
            bound == [n \in {"a", "b"} |-> IF n = "a" THEN 1 ELSE 2]
        IN  /\ qm.sig = <<"self", "a", "b">>
            /\ qm.precomputedSQL["qmark"].sql = <<"?", "?">>
            /\ qm.precomputedSQL["pyformat"].sql = <<"%s", "%s">>
            /\ queryArguments(qm.precomputedSQL["qmark"].map, bound) = <<2, 1>>
            /\ queryArguments(qm.precomputedSQL["pyformat"].map, bound) = <<2, 1>>

(***************************************************************************)
(* Properties of the schema builder (SpecSchema), stated on the trace of   *)
(* the operations made.                                                    *)
(***************************************************************************)
\* The tables open after the operations tr, outermost first, by decorator;
\* ok: every column and constraint was declared inside an open table and
\* every decorator was applied to the innermost open table, its own.
RECURSIVE Nesting(_)
Nesting(tr) ==
    IF tr = <<>> THEN [ok |-> TRUE, open |-> <<>>]
    ELSE LET before == Nesting(SubSeq(tr, 1, Len(tr) - 1))
             e == tr[Len(tr)]
             depth == Len(before.open)
         IN  CASE e.op = "table" ->
                    [ok |-> before.ok, open |-> Append(before.open, e.decorator)]
               [] e.op = "buildSchema" ->
                    IF depth > 0 /\ before.open[depth] = e.decorator
                    THEN [ok |-> before.ok,
                          open |-> SubSeq(before.open, 1, depth - 1)]
                    ELSE [ok |-> FALSE, open |-> before.open]
               [] OTHER -> [ok |-> before.ok /\ depth > 0, open |-> before.open]

WellNested == Nesting(trace).ok

\* The table that is innermost when operation i of the trace is made.
Innermost(i) ==
    LET open == Nesting(SubSeq(trace, 1, i - 1)).open
    IN  IF open = <<>> THEN 0 ELSE open[Len(open)]

\* The texts of the op declarations made for the table of decorator d, in the
\* order they were made.
DeclaredFor(d, op) ==
    LET made == {i \in 1..Len(trace) : trace[i].op = op /\ Innermost(i) = d}
    IN  [k \in 1..Cardinality(made) |->
            trace[CHOOSE i \in made :
                      Cardinality({j \in made : j < i}) = k - 1].text]

\* A CREATE TABLE statement written out: the items one per line, a comma
\* after each but the last.
Statement(name, items) ==
    <<"CREATE TABLE IF NOT EXISTS ", name, " (\n    ">>
        \o [i \in 1..(IF items = <<>> THEN 0 ELSE 2 * Len(items) - 1) |->
               IF i % 2 = 1 THEN items[(i + 1) \div 2] ELSE ",\n    "]
        \o <<"\n);\n">>

\* The decorators applied, in the order they were applied.
Completed == SelectSeq(trace, LAMBDA e : e.op = "buildSchema")

RECURSIVE StatementsOf(_)
StatementsOf(done) ==
    IF done = <<>> THEN <<>>
    ELSE Statement(Head(done).text,
                   DeclaredFor(Head(done).decorator, "column")
                       \o DeclaredFor(Head(done).decorator, "constraint"))
             \o StatementsOf(Tail(done))

\* C15: in a well-nested use, when a table definition has just completed,
\* schema ends with one CREATE TABLE IF NOT EXISTS statement of that table,
\* which lists all the columns declared for the table in declaration order
\* and then all its constraints in declaration order, however the two kinds
\* of declaration were interleaved; what precedes it is the statements of
\* the tables completed before.
C15_StatementOnCompletion ==
    (WellNested /\ trace # <<>> /\ trace[Len(trace)].op = "buildSchema")
        => LET d == trace[Len(trace)].decorator
               added == Statement(decorators[d].tableName,
                            DeclaredFor(d, "column")
                                \o DeclaredFor(d, "constraint"))
               kept == Len(schema) - Len(added)
           IN  /\ kept >= 0
               /\ SubSeq(schema, kept + 1, Len(schema)) = added
               /\ Occurrences(SubSeq(schema, 1, kept),
                              "CREATE TABLE IF NOT EXISTS ")
                      = Len(Completed) - 1

\* The table hello was completed after a column, a constraint and a second
\* column: the constraint is listed last.
C15_Witness ==
    /\ trace = <<Event("table", "hello", 1),
                 Event("column", "foo INTEGER NOT NULL", 0),
                 Event("constraint", "UNIQUE (foo)", 0),
                 Event("column", "bar TEXT NOT NULL", 0),
                 Event("buildSchema", "hello", 1)>>
    /\ schema = <<"CREATE TABLE IF NOT EXISTS ", "hello", " (\n    ",
                  "foo INTEGER NOT NULL", ",\n    ",
                  "bar TEXT NOT NULL", ",\n    ",
                  "UNIQUE (foo)", "\n);\n">>

\* C16: in a well-nested use, every column and constraint is held by the
\* working table of the table that was innermost when it was declared (a
\* declaration made for the outer table after the inner one completed is
\* held by the outer table), and the statements of schema are those of the
\* completed tables in the order they completed, an inner table's before the
\* one of the table it is nested in.
C16_InnermostTable ==
    WellNested
        => /\ \A d \in 1..Len(decorators) :
                  /\ workingTables[decorators[d].work].columns
                         = DeclaredFor(d, "column")
                  /\ workingTables[decorators[d].work].constraints
                         = DeclaredFor(d, "constraint")
           /\ schema = StatementsOf(Completed)

\* goodbye was defined inside hello between two columns of hello.
C16_Witness ==
    /\ trace = <<Event("table", "hello", 1),
                 Event("column", "foo INTEGER NOT NULL", 0),
                 Event("table", "goodbye", 2),
                 Event("column", "bar TEXT NOT NULL", 0),
                 Event("buildSchema", "goodbye", 2),
                 Event("column", "bar TEXT NOT NULL", 0),
                 Event("buildSchema", "hello", 1)>>
    /\ schema = <<"CREATE TABLE IF NOT EXISTS ", "goodbye", " (\n    ",
                  "bar TEXT NOT NULL", "\n);\n",
                  "CREATE TABLE IF NOT EXISTS ", "hello", " (\n    ",
                  "foo INTEGER NOT NULL", ",\n    ",
                  "bar TEXT NOT NULL", "\n);\n">>

\* The working tables from current along back, innermost first.
RECURSIVE Chain(_)
Chain(t) == IF t = 0 THEN <<>> ELSE <<t>> \o Chain(workingTables[t].back)

\* C20: in a well-nested use no operation raises (the assertion "stack
\* should match" holds at every completion: the table popped is the one the
\* decorator's table() pushed), the stack holds exactly the working tables of
\* the open tables, innermost first, so it is empty once every opened table
\* is completed, and schema holds one statement per completed table.
C20_StackMatches ==
    WellNested
        => LET open == Nesting(trace).open
           IN  /\ thrown = "none"
               /\ Chain(current) =
                      [k \in 1..Len(open) |->
                          decorators[open[Len(open) + 1 - k]].work]
               /\ open = <<>> => current = 0
               /\ Occurrences(schema, "CREATE TABLE IF NOT EXISTS ")
                      = Len(Completed)

\* Two tables, one inside the other, both completed: the stack is empty and
\* schema has two statements.
C20_Witness ==
    /\ WellNested
    /\ Len(decorators) = 2
    /\ Nesting(SubSeq(trace, 1, Len(trace) - 2)).open = <<1, 2>>
    /\ Len(Completed) = 2
    /\ current = 0
    /\ Occurrences(schema, "CREATE TABLE IF NOT EXISTS ") = 2

====
